---- MODULE Spec2Model ----
(***************************************************************************)
(* humantime: format_duration (src/src/format.rs), Unit::from_second       *)
(* (src/src/units.rs) and parse_duration_new (src/src/new.rs).             *)
(*                                                                         *)
(* Text is modelled by TLA+ strings, u64 values by arbitrary-precision     *)
(* naturals (sequences of 15-bit limbs, least significant first, no high   *)
(* zero limb) and f64 values by IEEE-754 binary64 numbers m * 2^e with a   *)
(* 53-bit significand, every operation rounded to nearest, ties to even.   *)
(***************************************************************************)
EXTENDS Integers, Sequences, FiniteSets, TLC

(***************************************************************************)
(* Arbitrary-precision naturals: the value range of u64 and of the exact   *)
(* intermediate results of f64 arithmetic.                                 *)
(***************************************************************************)
Base == 2^15

Limb(a, i) == IF i <= Len(a) THEN a[i] ELSE 0

RECURSIVE NNorm(_)
NNorm(a) ==
    IF a = <<>> THEN a
    ELSE IF a[Len(a)] = 0 THEN NNorm(SubSeq(a, 1, Len(a) - 1)) ELSE a

RECURSIVE NFromInt(_)
NFromInt(n) == IF n = 0 THEN <<>> ELSE <<n % Base>> \o NFromInt(n \div Base)

RECURSIVE NToInt(_)
NToInt(a) == IF a = <<>> THEN 0 ELSE a[1] + Base * NToInt(Tail(a))

RECURSIVE NAddC(_, _, _, _)
NAddC(a, b, i, c) ==
    IF i > Len(a) /\ i > Len(b)
    THEN (IF c = 0 THEN <<>> ELSE <<c>>)
    ELSE LET s == Limb(a, i) + Limb(b, i) + c
         IN  <<s % Base>> \o NAddC(a, b, i + 1, s \div Base)

NAdd(a, b) == NAddC(a, b, 1, 0)

RECURSIVE NSubB(_, _, _, _)
NSubB(a, b, i, br) ==
    IF i > Len(a) THEN <<>>
    ELSE LET d == a[i] - Limb(b, i) - br
         IN  <<IF d < 0 THEN d + Base ELSE d>>
                 \o NSubB(a, b, i + 1, IF d < 0 THEN 1 ELSE 0)

\* a - b, for a >= b
NSub(a, b) == NNorm(NSubB(a, b, 1, 0))

RECURSIVE NCmpAt(_, _, _)
NCmpAt(a, b, i) ==
    IF i = 0 THEN 0
    ELSE IF a[i] < b[i] THEN -1
    ELSE IF a[i] > b[i] THEN 1
    ELSE NCmpAt(a, b, i - 1)

NCmp(a, b) ==
    IF Len(a) < Len(b) THEN -1
    ELSE IF Len(a) > Len(b) THEN 1
    ELSE NCmpAt(a, b, Len(a))

NLe(a, b) == NCmp(a, b) <= 0
NLt(a, b) == NCmp(a, b) < 0

RECURSIVE NMulC(_, _, _, _)
NMulC(a, k, i, c) ==
    IF i > Len(a)
    THEN (IF c = 0 THEN <<>> ELSE <<c>>)
    ELSE LET p == a[i] * k + c
         IN  <<p % Base>> \o NMulC(a, k, i + 1, p \div Base)

\* a * k, for 0 <= k < Base
NMulSmall(a, k) == IF k = 0 THEN <<>> ELSE NMulC(a, k, 1, 0)

Cons0(a) == IF a = <<>> THEN a ELSE <<0>> \o a

RECURSIVE NMulAt(_, _, _)
NMulAt(a, b, i) ==
    IF i > Len(b) THEN <<>>
    ELSE NAdd(NMulSmall(a, b[i]), Cons0(NMulAt(a, b, i + 1)))

NMul(a, b) == NMulAt(a, b, 1)

\* a quotient with its high zero limbs removed
NormQ(x) == [q |-> NNorm(x.q), r |-> x.r]

RECURSIVE NDivSmallAt(_, _, _, _)
NDivSmallAt(a, d, i, r) ==
    IF i = 0 THEN [q |-> <<>>, r |-> r]
    ELSE LET cur  == r * Base + a[i]
             rest == NDivSmallAt(a, d, i - 1, cur % d)
         IN  [q |-> Append(rest.q, cur \div d), r |-> rest.r]

\* quotient (a natural) and remainder (an integer) of a by d, 0 < d <= Base
NDivModSmall(a, d) == NormQ(NDivSmallAt(a, d, Len(a), 0))

RECURSIVE Zeros(_)
Zeros(k) == IF k = 0 THEN <<>> ELSE <<0>> \o Zeros(k - 1)

\* a * 2^k
NShl(a, k) ==
    IF a = <<>> THEN a ELSE Zeros(k \div 15) \o NMulSmall(a, 2^(k % 15))

\* a \div 2^k
NShr(a, k) ==
    IF k \div 15 >= Len(a) THEN <<>>
    ELSE NDivModSmall(SubSeq(a, k \div 15 + 1, Len(a)), 2^(k % 15)).q

\* bit i of a, bit 0 the least significant
NBit(a, i) == (Limb(a, i \div 15 + 1) \div 2^(i % 15)) % 2

\* a % 2^k = 0
NLowZero(a, k) == NShl(NShr(a, k), k) = a

RECURSIVE BitLenSmall(_)
BitLenSmall(n) == IF n = 0 THEN 0 ELSE 1 + BitLenSmall(n \div 2)

NBitLen(a) ==
    IF a = <<>> THEN 0 ELSE 15 * (Len(a) - 1) + BitLenSmall(a[Len(a)])

RECURSIVE QDigit(_, _, _, _)
\* the largest d in lo..hi with b * d <= r, given b * lo <= r < b * (hi + 1)
QDigit(r, b, lo, hi) ==
    IF lo = hi THEN lo
    ELSE LET mid == (lo + hi + 1) \div 2
         IN  IF NLe(NMulSmall(b, mid), r)
             THEN QDigit(r, b, mid, hi)
             ELSE QDigit(r, b, lo, mid - 1)

\* a quotient with one more limb d, above the others
PushLimb(rest, d) == [q |-> Append(rest.q, d), r |-> rest.r]

RECURSIVE NDivModAt(_, _, _, _)
RECURSIVE NDivModStep(_, _, _, _)
RECURSIVE NDivModDigit(_, _, _, _, _)

\* long division of the limbs i..1 of a by b, r the remainder so far
NDivModAt(a, b, i, r) ==
    IF i = 0 THEN [q |-> <<>>, r |-> r]
    ELSE NDivModStep(a, b, i, NNorm(<<a[i]>> \o r))

NDivModStep(a, b, i, cur) ==
    IF NLt(cur, b)
    THEN PushLimb(NDivModAt(a, b, i - 1, cur), 0)
    ELSE NDivModDigit(a, b, i, cur, QDigit(cur, b, 1, Base - 1))

NDivModDigit(a, b, i, cur, d) ==
    PushLimb(NDivModAt(a, b, i - 1, NSub(cur, NMulSmall(b, d))), d)

\* quotient and remainder of a by b, b > 0 (long division, limb by limb)
NDivMod(a, b) == NormQ(NDivModAt(a, b, Len(a), <<>>))

RECURSIVE Pow10(_)
Pow10(k) == IF k = 0 THEN <<1>> ELSE NMulSmall(Pow10(k - 1), 10)

(***************************************************************************)
(* f64: a non-negative finite double is [m, e] with value m * 2^e, where   *)
(* m = 0 (and e = 0) or 2^52 <= m < 2^53.  No value of the program comes   *)
(* near the subnormal or the overflow range.                               *)
(***************************************************************************)
FZero == [m |-> <<>>, e |-> 0]

\* a significand that rounding up carried to 2^53, renormalised
FCarry(q, e) ==
    IF NBitLen(q) = 54 THEN [m |-> NShr(q, 1), e |-> e + 1]
    ELSE [m |-> q, e |-> e]

\* round to nearest, ties to even: M = q * 2^s + (the s bits dropped)
FRndUp(M, q, s, sticky) ==
    /\ NBit(M, s - 1) = 1
    /\ sticky \/ ~NLowZero(M, s - 1) \/ NBit(q, 0) = 1

FRndQ(M, E, sticky, s, q) ==
    IF FRndUp(M, q, s, sticky)
    THEN FCarry(NAdd(q, <<1>>), E + s)
    ELSE [m |-> q, e |-> E + s]

FRndL(M, E, sticky, L) ==
    IF L <= 53
    THEN [m |-> NShl(M, 53 - L), e |-> E - (53 - L)]
    ELSE FRndQ(M, E, sticky, L - 53, NShr(M, L - 53))

\* the double nearest M * 2^E (plus a positive amount below one unit of M
\* when sticky), ties to even
FRnd(M, E, sticky) ==
    IF M = <<>> THEN FZero ELSE FRndL(M, E, sticky, NBitLen(M))

\* u64 as f64
FFromNat(n) == FRnd(n, 0, FALSE)

FMul(x, y) == FRnd(NMul(x.m, y.m), x.e + y.e, FALSE)

\* the double nearest d.q * 2^e, d.r the remainder of the division
FRndDiv(d, e) == FRnd(d.q, e, d.r # <<>>)

\* x / y, y > 0
FDiv(x, y) ==
    IF x.m = <<>> THEN FZero
    ELSE FRndDiv(NDivMod(NShl(x.m, 56), y.m), x.e - y.e - 56)

Min(a, b) == IF a < b THEN a ELSE b

FAdd(x, y) ==
    IF x.m = <<>> THEN y
    ELSE IF y.m = <<>> THEN x
    ELSE LET e == Min(x.e, y.e)
         IN  FRnd(NAdd(NShl(x.m, x.e - e), NShl(y.m, y.e - e)), e, FALSE)

FCmp(x, y) ==
    IF x.m = <<>> THEN (IF y.m = <<>> THEN 0 ELSE -1)
    ELSE IF y.m = <<>> THEN 1
    ELSE IF x.e < y.e THEN -1
    ELSE IF x.e > y.e THEN 1
    ELSE NCmp(x.m, y.m)

FLe(x, y) == FCmp(x, y) <= 0
FLt(x, y) == FCmp(x, y) < 0

\* x - y, for x >= y
FSub(x, y) ==
    IF y.m = <<>> THEN x
    ELSE LET e == Min(x.e, y.e)
         IN  FRnd(NSub(NShl(x.m, x.e - e), NShl(y.m, y.e - e)), e, FALSE)

\* the integer part of x, as a natural
FIntPart(x) == IF x.e >= 0 THEN NShl(x.m, x.e) ELSE NShr(x.m, 0 - x.e)

\* f64::floor and f64::trunc, which agree on non-negative values
FFloor(x) == FFromNat(FIntPart(x))
FTrunc(x) == FFromNat(FIntPart(x))

\* f64::round: to the nearest integer, halves away from zero
FRoundInt(x) ==
    IF x.e < 0 /\ NBit(x.m, 0 - x.e - 1) = 1
    THEN FFromNat(NAdd(FIntPart(x), <<1>>))
    ELSE FFromNat(FIntPart(x))

\* fmod, the f64 `%` operator: exact; y > 0
FMod(x, y) ==
    IF FLt(x, y) THEN x
    ELSE FRnd(NDivMod(NShl(x.m, x.e - y.e), y.m).r, y.e, FALSE)

\* the double nearest the decimal N / 10^k (str::parse::<f64>)
FLitShifted(N, p, s) == FRndDiv(NDivMod(NShl(N, s), p), 0 - s)

FLitQuot(N, p, s0) == FLitShifted(N, p, IF s0 < 0 THEN 0 ELSE s0)

FLitDiv(N, p) == FLitQuot(N, p, 56 + NBitLen(p) - NBitLen(N))

FLit(N, k) ==
    IF k = 0 THEN FFromNat(N)
    ELSE IF N = <<>> THEN FZero
    ELSE FLitDiv(N, Pow10(k))

(***************************************************************************)
(* Integer types and std::time::Duration                                   *)
(***************************************************************************)
U64_MAX == NSub(NShl(<<1>>, 64), <<1>>)
U32_MAX == NSub(NShl(<<1>>, 32), <<1>>)

NANOS_PER_SEC == 1000000000

\* `f as u64`: truncates, saturating at u64::MAX
AsU64(x) ==
    LET n == FIntPart(x) IN IF NLt(U64_MAX, n) THEN U64_MAX ELSE n

\* `f as u32`: truncates, saturating at u32::MAX
AsU32(x) ==
    LET n == FIntPart(x) IN IF NLt(U32_MAX, n) THEN U32_MAX ELSE n

Duration(secs, nanos) == [secs |-> secs, nanos |-> nanos]

ZeroDuration == Duration(<<>>, 0)

\* Duration::new(secs, nanos): carries whole seconds out of nanos and
\* panics when the seconds overflow u64.  nanos is a natural (u32).
DurationChecked(secs, nanos) ==
    IF NLt(U64_MAX, secs)
    THEN [panic |-> TRUE, d |-> ZeroDuration]
    ELSE [panic |-> FALSE, d |-> Duration(secs, nanos)]

DurationCarry(secs, c) == DurationChecked(NAdd(secs, c.q), NToInt(c.r))

DurationNew(secs, nanos) ==
    DurationCarry(secs, NDivMod(nanos, NFromInt(NANOS_PER_SEC)))

\* Duration + Duration (checked_add): panics when the seconds overflow u64
DurationAdd(x, y) ==
    LET n == x.nanos + y.nanos
        c == IF n >= NANOS_PER_SEC THEN 1 ELSE 0
    IN  DurationChecked(NAdd(NAdd(x.secs, y.secs), NFromInt(c)),
                        n - c * NANOS_PER_SEC)

\* Duration::as_secs_f64
as_secs_f64(d) ==
    FAdd(FFromNat(d.secs),
         FDiv(FFromNat(NFromInt(d.nanos)), FFromNat(NFromInt(NANOS_PER_SEC))))

(***************************************************************************)
(* Decimal text of integers                                                *)
(***************************************************************************)
DigitChar == <<"0", "1", "2", "3", "4", "5", "6", "7", "8", "9">>

Digits == {DigitChar[k] : k \in 1..10}

DigitVal(c) == (CHOOSE k \in 1..10 : DigitChar[k] = c) - 1

\* the i-th character of s, "" beyond its end
At(s, i) == IF 1 <= i /\ i <= Len(s) THEN SubSeq(s, i, i) ELSE ""

RECURSIVE DecDigits(_)
DecDigits(n) ==
    IF n = <<>> THEN ""
    ELSE LET d == NDivModSmall(n, 10) IN DecDigits(d.q) \o DigitChar[d.r + 1]

\* `{}` of a u64
u64_to_string(n) == IF n = <<>> THEN "0" ELSE DecDigits(n)

RECURSIVE DecValue(_)
\* the natural a string of digits denotes
DecValue(s) ==
    IF s = "" THEN <<>>
    ELSE LET hi == DecValue(SubSeq(s, 1, Len(s) - 1))
             lo == NFromInt(DigitVal(At(s, Len(s))))
         IN  IF hi = <<>> THEN lo ELSE NAdd(NMulSmall(hi, 10), lo)

(***************************************************************************)
(* Unit table: crate::constants and Unit::from_second (units.rs)           *)
(***************************************************************************)
NANO_TO_SECOND   == FLit(<<1>>, 9)
MICRO_TO_SECOND  == FLit(<<1>>, 6)
MILLIS_TO_SECOND == FLit(<<1>>, 3)
SECOND_TO_SECOND == FFromNat(<<1>>)
MINUTE_TO_SECOND == FFromNat(NFromInt(60))
HOUR_TO_SECOND   == FFromNat(NFromInt(3600))
DAY_TO_SECOND    == FFromNat(NFromInt(86400))
WEEK_TO_SECOND   == FFromNat(NFromInt(604800))
MONTH_TO_SECOND  == FMul(FLit(NFromInt(3044), 2), DAY_TO_SECOND)
YEAR_TO_SECOND   == FMul(FLit(NFromInt(36525), 2), DAY_TO_SECOND)

\* decomposition order of the formatter, largest first
Units == <<"Years", "Months", "Weeks", "Days", "Hours", "Minutes",
           "Seconds", "Millis", "Micros", "Nanos">>

Factor(u) ==
    CASE u = "Nanos"   -> NANO_TO_SECOND
      [] u = "Micros"  -> MICRO_TO_SECOND
      [] u = "Millis"  -> MILLIS_TO_SECOND
      [] u = "Seconds" -> SECOND_TO_SECOND
      [] u = "Minutes" -> MINUTE_TO_SECOND
      [] u = "Hours"   -> HOUR_TO_SECOND
      [] u = "Days"    -> DAY_TO_SECOND
      [] u = "Weeks"   -> WEEK_TO_SECOND
      [] u = "Months"  -> MONTH_TO_SECOND
      [] u = "Years"   -> YEAR_TO_SECOND

\* one arm of from_second, f the constant of the unit:
\* ((value / f).trunc() as u64, value % f)
FromSecond(f, value) ==
    [count |-> AsU64(FTrunc(FDiv(value, f))), rem |-> FMod(value, f)]

\* Unit::from_second: (whole units, remainder in seconds)
from_second(u, value) == FromSecond(Factor(u), value)

(***************************************************************************)
(* Formatter: format.rs                                                    *)
(***************************************************************************)
\* the formatter being written to: the text so far and the `started` flag
NewWriter == [f |-> "", started |-> FALSE]

\* item_plural with the plural "s" written for every count
item_plural_always(w, name, value) ==
    IF NLt(<<>>, value)
    THEN [f |-> w.f \o (IF w.started THEN " " ELSE "")
                    \o u64_to_string(value) \o name \o "s",
          started |-> TRUE]
    ELSE w

item_plural(w, name, value) ==
    IF NLt(<<>>, value)
    THEN [f |-> w.f \o (IF w.started THEN " " ELSE "")
                    \o u64_to_string(value) \o name
                    \o (IF NLt(<<1>>, value) THEN "s" ELSE ""),
          started |-> TRUE]
    ELSE w

\* item without the separating space
item_unseparated(w, name, value) ==
    IF NLt(<<>>, value)
    THEN [f |-> w.f \o u64_to_string(value) \o name, started |-> TRUE]
    ELSE w

item(w, name, value) ==
    IF NLt(<<>>, value)
    THEN [f |-> w.f \o (IF w.started THEN " " ELSE "")
                    \o u64_to_string(value) \o name,
          started |-> TRUE]
    ELSE w

\* the counts and the remainders of the units decomposed so far, and the
\* value left for the next unit
Undecomposed(secs) == [counts |-> <<>>, rems |-> <<>>, value |-> secs]

Decomposed(acc, r) ==
    [counts |-> Append(acc.counts, r.count),
     rems   |-> Append(acc.rems, r.rem),
     value  |-> r.rem]

\* let (count, rem) = Unit::u.from_second(the remainder of the line before)
decompose(acc, u) == Decomposed(acc, from_second(u, acc.value))

\* the ten from_second lines of fmt
from_second_chain(secs) ==
    LET years   == decompose(Undecomposed(secs), "Years")
        months  == decompose(years, "Months")
        weeks   == decompose(months, "Weeks")
        days    == decompose(weeks, "Days")
        hours   == decompose(days, "Hours")
        minutes == decompose(hours, "Minutes")
        seconds == decompose(minutes, "Seconds")
        millis  == decompose(seconds, "Millis")
        micros  == decompose(millis, "Micros")
    IN  decompose(micros, "Nanos")

\* the ten item lines of fmt, c the ten counts
write_items(c) ==
    LET w1 == item_plural(NewWriter, "year", c[1])
        w2 == item_plural(w1, "month", c[2])
        w3 == item_plural(w2, "week", c[3])
        w4 == item_plural(w3, "day", c[4])
        w5 == item(w4, "h", c[5])
        w6 == item(w5, "m", c[6])
        w7 == item(w6, "s", c[7])
        w8 == item(w7, "ms", c[8])
        w9 == item(w8, "us", c[9])
    IN  item(w9, "ns", c[10])

\* what fmt leaves: the ten counts, the ten remainders and the text written
Written(acc) ==
    [counts |-> acc.counts, rems |-> acc.rems, out |-> write_items(acc.counts).f]

\* fmt from the first from_second on, secs # 0.0
fmt_units(secs) == Written(from_second_chain(secs))

\* fmt after let secs = self.0.as_secs_f64()
fmt_secs(secs) ==
    IF secs = FZero
    THEN [counts |-> <<>>, rems |-> <<>>, out |-> "0s"]
    ELSE fmt_units(secs)

\* fmt with the zero test on the whole seconds only
fmt_whole_seconds_zero(val) ==
    IF val.secs = <<>>
    THEN [counts |-> <<>>, rems |-> <<>>, out |-> "0s"]
    ELSE fmt_units(as_secs_f64(val))

\* <FormattedDuration as Display>::fmt
fmt(val) == fmt_secs(as_secs_f64(val))

\* format_duration(val).to_string()
format_duration(val) == fmt(val).out

(***************************************************************************)
(* Parser: new.rs.  A parser returns [ok, rest, ...] on success and        *)
(* [ok |-> FALSE, input, code] (nom::error::Error) on a recoverable error. *)
(***************************************************************************)
NomError(input, code) == [ok |-> FALSE, input |-> input, code |-> code]

\* characters of nom's space0 / space1
IsSpace(c) == c \in {" ", "\t"}

\* characters str::trim removes (the ASCII ones)
IsWhitespace(c) == c \in {" ", "\t", "\n", "\r"}

RECURSIVE TrimStart(_)
TrimStart(s) ==
    IF s # "" /\ IsWhitespace(At(s, 1)) THEN TrimStart(Tail(s)) ELSE s

RECURSIVE TrimEnd(_)
TrimEnd(s) ==
    IF s # "" /\ IsWhitespace(At(s, Len(s)))
    THEN TrimEnd(SubSeq(s, 1, Len(s) - 1))
    ELSE s

\* str::trim
Trim(s) == TrimEnd(TrimStart(s))

RECURSIVE space0(_)
\* the input left after zero or more spaces and tabs
space0(s) == IF s # "" /\ IsSpace(At(s, 1)) THEN space0(Tail(s)) ELSE s

RECURSIVE DigitRun(_, _)
\* the length of the run of digits of s that starts at position i
DigitRun(s, i) ==
    IF i <= Len(s) /\ At(s, i) \in Digits THEN 1 + DigitRun(s, i + 1) ELSE 0

\* the value and the rest of a literal: p the first digit, n1 digits before
\* the point, n2 digits after it, the first of them at q
double_value(input, p, n1, n2, q) ==
    IF n1 = 0 /\ n2 = 0
    THEN NomError(input, "Float")
    ELSE [ok    |-> TRUE,
          value |-> [neg |-> At(input, 1) = "-",
                     mag |-> FLit(DecValue(SubSeq(input, p, p + n1 - 1)
                                           \o SubSeq(input, q, q + n2 - 1)),
                                  n2)],
          rest  |-> SubSeq(input, q + n2, Len(input))]

double_fraction(input, p, n1, dot) ==
    double_value(input, p, n1,
                 IF dot THEN DigitRun(input, p + n1 + 1) ELSE 0,
                 IF dot THEN p + n1 + 1 ELSE p + n1)

double_digits(input, p, n1) ==
    double_fraction(input, p, n1, At(input, p + n1) = ".")

double_unsigned(input, p) == double_digits(input, p, DigitRun(input, p))

\* nom::number::complete::double on the literals [+-] digits [. [digits]]
\* and [+-] . digits (exponents and the words nan, inf, infinity are left
\* out of the inputs): a signed value [neg, mag]
double(input) ==
    double_unsigned(input,
                    IF input # "" /\ At(input, 1) \in {"+", "-"} THEN 2 ELSE 1)

\* value >= 0.0 && value <= u64::MAX as f64
parse_decimal(value) ==
    /\ ~value.neg \/ value.mag = FZero
    /\ value.neg \/ FLe(value.mag, FFromNat(U64_MAX))

\* map_opt(parse_decimal) on the result r of double
map_opt(r, input) ==
    IF ~r.ok THEN r
    ELSE IF parse_decimal(r.value)
    THEN [ok |-> TRUE, value |-> r.value.mag, rest |-> r.rest]
    ELSE NomError(input, "MapOpt")

\* double.map_opt(parse_decimal)
number(input) == map_opt(double(input), input)

\* let total_seconds = match unit { ... }
total_seconds(value, u) ==
    CASE u = "Nanos"   -> FMul(value, FLit(<<1>>, 9))
      [] u = "Micros"  -> FMul(value, FLit(<<1>>, 6))
      [] u = "Millis"  -> FMul(value, FLit(<<1>>, 3))
      [] u = "Seconds" -> value
      [] u = "Minutes" -> FMul(value, FFromNat(NFromInt(60)))
      [] u = "Hours"   -> FMul(value, FFromNat(NFromInt(3600)))
      [] u = "Days"    -> FMul(value, FFromNat(NFromInt(86400)))
      [] u = "Weeks"   -> FMul(value, FFromNat(NFromInt(604800)))
      [] u = "Months"  -> FMul(FMul(value, FLit(NFromInt(3044), 2)),
                               FFromNat(NFromInt(86400)))
      [] u = "Years"   -> FMul(FMul(value, FLit(NFromInt(36525), 2)),
                               FFromNat(NFromInt(86400)))

\* Duration::new(total_seconds.floor() as u64,
\*               ((total_seconds - total_seconds.floor()) * 1e9).round() as u32)
seconds_and_nanos(t) ==
    DurationNew(AsU64(FFloor(t)),
                AsU32(FRoundInt(FMul(FSub(t, FFloor(t)),
                                     FFromNat(NFromInt(NANOS_PER_SEC))))))

\* Convert parsed units to seconds and nanoseconds
convert_to_duration(value, u) == seconds_and_nanos(total_seconds(value, u))

\* the tags of unit(), in the order alt tries them
UnitTags ==
    << <<"months", "Months">>, <<"month", "Months">>, <<"mths", "Months">>,
       <<"mth", "Months">>, <<"M", "Months">>,
       <<"days", "Days">>, <<"day", "Days">>, <<"dys", "Days">>,
       <<"dy", "Days">>, <<"d", "Days">>, <<"D", "Days">>,
       <<"weeks", "Weeks">>, <<"week", "Weeks">>, <<"wks", "Weeks">>,
       <<"wk", "Weeks">>, <<"w", "Weeks">>, <<"W", "Weeks">>,
       <<"years", "Years">>, <<"year", "Years">>, <<"yrs", "Years">>,
       <<"yr", "Years">>, <<"y", "Years">>, <<"Y", "Years">>,
       <<"nanos", "Nanos">>, <<"nsec", "Nanos">>, <<"ns", "Nanos">>,
       <<"micros", "Micros">>, <<"usec", "Micros">>, <<"us", "Micros">>,
       <<"millis", "Millis">>, <<"msec", "Millis">>, <<"ms", "Millis">>,
       <<"seconds", "Seconds">>, <<"second", "Seconds">>,
       <<"secs", "Seconds">>, <<"sec", "Seconds">>, <<"s", "Seconds">>,
       <<"minutes", "Minutes">>, <<"minute", "Minutes">>,
       <<"mins", "Minutes">>, <<"min", "Minutes">>, <<"m", "Minutes">>,
       <<"hours", "Hours">>, <<"hour", "Hours">>, <<"hrs", "Hours">>,
       <<"hr", "Hours">>, <<"h", "Hours">>, <<"H", "Hours">> >>

\* nom's tag(t) succeeds on input
tag(t, input) == Len(input) >= Len(t) /\ SubSeq(input, 1, Len(t)) = t

\* the i-th tag has matched
unit_tagged(input, i) ==
    [ok   |-> TRUE,
     unit |-> UnitTags[i][2],
     rest |-> SubSeq(input, Len(UnitTags[i][1]) + 1, Len(input))]

\* alt: the first of the tags hits, in the order of UnitTags
unit_alt(input, hits) ==
    IF hits = {}
    THEN NomError(input, "Tag")
    ELSE unit_tagged(input, CHOOSE k \in hits : \A j \in hits : k <= j)

\* Parse a unit name: the first tag, in alt's order, that the input starts with
unit(input) ==
    unit_alt(input, {i \in 1..Len(UnitTags) : tag(UnitTags[i][1], input)})

\* a time-span parsed: the result of Duration::new and the input left
Span(d, rest) == [ok |-> TRUE, panic |-> d.panic, d |-> d.d, rest |-> rest]

\* time_span after the number n and the unit u
time_span_convert(n, u) ==
    IF ~u.ok THEN u
    ELSE Span(convert_to_duration(n.value, u.unit), space0(u.rest))

\* time_span after the number n
time_span_unit(n) ==
    IF ~n.ok THEN n ELSE time_span_convert(n, unit(space0(n.rest)))

\* Parse a float followed by a unit:
\* terminated(separated_pair(number, opt(space0), unit), opt(space1))
time_span(input) == time_span_unit(number(input))

\* many1 left by a panic of Duration::new
Aborted(rest, acc) ==
    [ok |-> TRUE, panic |-> TRUE, rest |-> rest, durations |-> acc]

RECURSIVE many0(_, _)
RECURSIVE many0_next(_, _, _)
\* the rest of many1's loop: spans are taken until time_span fails
many0(input, acc) == many0_next(input, acc, time_span(input))

many0_next(input, acc, t) ==
    IF ~t.ok THEN [ok |-> TRUE, panic |-> FALSE, rest |-> input,
                   durations |-> acc]
    ELSE IF t.panic THEN Aborted(t.rest, acc)
    ELSE many0(t.rest, Append(acc, t.d))

\* many1 after its first time_span
many1_first(t) ==
    IF ~t.ok THEN t
    ELSE IF t.panic THEN Aborted(t.rest, <<>>)
    ELSE many0(t.rest, <<t.d>>)

\* many1(time_span)
many1(input) == many1_first(time_span(input))

RECURSIVE fold(_, _, _)
RECURSIVE fold_add(_, _, _)
\* acc + duration
fold_add(durations, i, s) ==
    IF s.panic THEN s ELSE fold(durations, i + 1, s.d)

\* durations.into_iter().fold(acc, |acc, duration| acc + duration), from
\* the i-th duration on
fold(durations, i, acc) ==
    IF i > Len(durations) THEN [panic |-> FALSE, d |-> acc]
    ELSE fold_add(durations, i, DurationAdd(acc, durations[i]))

Result(kind, d, input, code) ==
    [kind |-> kind, d |-> d, input |-> input, code |-> code]

\* Ok(durations.into_iter().fold(...))
parse_total(total) ==
    IF total.panic
    THEN Result("Panic", ZeroDuration, "", "")
    ELSE Result("Ok", total.d, "", "")

\* parse_duration_new after many1(time_span)(input)
parse_spans(r) ==
    IF ~r.ok THEN Result("Nom", ZeroDuration, r.input, r.code)
    ELSE IF r.panic THEN Result("Panic", ZeroDuration, "", "")
    ELSE IF Trim(r.rest) # ""
    THEN Result("InputLeftOver", ZeroDuration, "", "")
    ELSE parse_total(fold(r.durations, 1, ZeroDuration))

\* parse_duration_new after let input = input.trim()
parse_trimmed(input) ==
    IF input = "" THEN Result("EmptyInput", ZeroDuration, "", "")
    ELSE parse_spans(many1(input))

\* Parse the full duration object.  kind is Ok, EmptyInput, InputLeftOver,
\* Nom, or Panic when the call aborts instead of returning.
parse_duration_new(text) == parse_trimmed(Trim(text))

(***************************************************************************)
(* Inputs                                                                  *)
(***************************************************************************)
\* largest multiple of one unit given to format_duration
MaxCount == 7
\* largest magnitude written before a unit tag
MaxMag == 5
\* largest number of time-spans concatenated
MaxSpans == 2

\* one whole unit as (seconds, nanoseconds), in the order of Units
UnitWhole ==
    << <<31557600, 0>>, <<2630016, 0>>, <<604800, 0>>, <<86400, 0>>,
       <<3600, 0>>, <<60, 0>>, <<1, 0>>, <<0, 1000000>>, <<0, 1000>>,
       <<0, 1>> >>

\* the Duration of n whole units of the i-th unit
WholeUnits(i, n) ==
    Duration(NFromInt(n * UnitWhole[i][1]), n * UnitWhole[i][2])

\* Duration::new(secs, nanos), secs in decimal
D(secs, nanos) == Duration(DecValue(secs), nanos)

FormatInputs ==
    {WholeUnits(i, n) : i \in 1..10, n \in 1..MaxCount}
    \cup {ZeroDuration,
          D("9420", 0), D("0", 32000000),
          D("69764954", 200000000),
          D("69120000", 0),
          D("1", 500000000), D("0", 999999999), D("59", 999000000),
          D("18446744073709551615", 0),
          D("18446744073709551615", 999999999)}

TagInputs ==
    {u64_to_string(NFromInt(n)) \o sep \o UnitTags[i][1] :
        n \in 1..MaxMag, sep \in {"", " "}, i \in 1..Len(UnitTags)}

UnitSuffixes == {"ns", "us", "ms", "s", "m", "h", "d", "w", "M", "Y"}

\* literals whose magnitude is above u64::MAX
HugeLiterals == {"100000000000000000000", "18446744073709551616"}

OverflowInputs ==
    {pre \o lit \o suf :
        pre \in {"", "1s "}, lit \in HugeLiterals, suf \in UnitSuffixes}

\* inputs whose seconds, or whose sum of seconds, are above u64::MAX
OutOfRangeInputs ==
    {"18446744073709551615s 1s", "18446744073709551615Y",
     "18446744073709551615m", "9223372036854775808s 9223372036854775808s"}

ParseInputs ==
    TagInputs \cup OverflowInputs \cup OutOfRangeInputs
    \cup {"", "   ", " \t\n", "5x", "5s extra", "5", "s", "x", "5 s 5",
          "1s\n2s", " 7ns ", "20 min 17 nsec", "2h 15m", "1.5days",
          "-5s", "-0s", "+5s", ".5s", "1.s", "0.5ns", "1.9999999999s",
          "18446744073709551615s", "18446744073709551615ns",
          "5s 5x", "5s -1s", "1M 1m 1ms"}

SpanPool ==
    {"20 min", "17 nsec", "2h", "15m", "999999999ns", "1.5s", "3M",
     "18446744073709551615s", "1s"}

RECURSIVE SeqsOf(_, _)
\* the sequences of exactly n elements of S
SeqsOf(S, n) ==
    IF n = 0 THEN {<<>>}
    ELSE {Append(q, x) : q \in SeqsOf(S, n - 1), x \in S}

SpanLists == UNION {SeqsOf(SpanPool, n) : n \in 1..MaxSpans}

RECURSIVE Join(_, _)
Join(ss, sep) ==
    IF Len(ss) = 0 THEN ""
    ELSE IF Len(ss) = 1 THEN ss[1]
    ELSE ss[1] \o sep \o Join(Tail(ss), sep)

(***************************************************************************)
(* The program: one call of format_duration(val).to_string(), followed by  *)
(* parsing its output, or one call of parse_duration_new(input).           *)
(***************************************************************************)
VARIABLES op, val, input, spans, pc, counts, rems, out, result, parts

vars == <<op, val, input, spans, pc, counts, rems, out, result, parts>>

NoResult == Result("None", ZeroDuration, "", "")

Init ==
    /\ pc = "start"
    /\ counts = <<>>
    /\ rems = <<>>
    /\ out = ""
    /\ result = NoResult
    /\ parts = <<>>
    /\ \/ /\ op = "format"
          /\ val \in FormatInputs
          /\ input = ""
          /\ spans = <<>>
       \/ /\ op = "parse"
          /\ val = ZeroDuration
          /\ input \in ParseInputs
          /\ spans = <<>>
       \/ /\ op = "concat"
          /\ val = ZeroDuration
          /\ spans \in SpanLists
          /\ input \in {Join(spans, ""), Join(spans, " ")}

\* the formatter has run: r is what fmt left
Formats(r) ==
    /\ counts' = r.counts
    /\ rems' = r.rems
    /\ out' = r.out

\* format_duration(val).to_string()
Format ==
    /\ op = "format"
    /\ pc = "start"
    /\ Formats(fmt(val))
    /\ pc' = "formatted"
    /\ UNCHANGED <<op, val, input, spans, result, parts>>

\* parse_duration_new(&text) on the formatter's output
Reparse ==
    /\ pc = "formatted"
    /\ result' = parse_duration_new(out)
    /\ pc' = "done"
    /\ UNCHANGED <<op, val, input, spans, counts, rems, out, parts>>

\* parse_duration_new(input)
Parse ==
    /\ op \in {"parse", "concat"}
    /\ pc = "start"
    /\ result' = parse_duration_new(input)
    /\ pc' = IF op = "concat" THEN "parsed" ELSE "done"
    /\ UNCHANGED <<op, val, input, spans, counts, rems, out, parts>>

\* parse_duration_new on each time-span of the input on its own
ParseEach ==
    /\ op = "concat"
    /\ pc = "parsed"
    /\ parts' = [i \in 1..Len(spans) |-> parse_duration_new(spans[i])]
    /\ pc' = "done"
    /\ UNCHANGED <<op, val, input, spans, counts, rems, out, result>>

Next == Format \/ Reparse \/ Parse \/ ParseEach

Spec == Init /\ [][Next]_vars

(***************************************************************************)
(* Reading a formatted text back: its items, and exact unit arithmetic     *)
(***************************************************************************)
RECURSIVE Pieces(_)
\* the text split at every space
Pieces(s) ==
    LET sp == {i \in 1..Len(s) : At(s, i) = " "}
    IN  IF sp = {} THEN <<s>>
        ELSE LET k == CHOOSE i \in sp : \A j \in sp : i <= j
             IN  <<SubSeq(s, 1, k - 1)>> \o Pieces(SubSeq(s, k + 1, Len(s)))

\* the count and the suffix of an item such as "2years"
ItemCount(p) == DecValue(SubSeq(p, 1, DigitRun(p, 1)))
ItemName(p)  == SubSeq(p, DigitRun(p, 1) + 1, Len(p))

\* the suffixes of the ten units, in the order of Units
Singular == <<"year", "month", "week", "day", "h", "m", "s", "ms", "us", "ns">>

\* the units with a calendar-scale suffix: years, months, weeks, days
Calendar == 1..4

\* the position in Units of the unit a suffix belongs to, 0 for no unit
NameRank(name) ==
    LET r == {i \in 1..10 : \/ name = Singular[i]
                            \/ i \in Calendar /\ name = Singular[i] \o "s"}
    IN  IF r = {} THEN 0 ELSE CHOOSE i \in r : TRUE

UnitIndex(u) == CHOOSE i \in 1..10 : Units[i] = u

\* a duration, and one whole unit, in nanoseconds
TotalNanos(d) == NAdd(NMul(d.secs, Pow10(9)), NFromInt(d.nanos))
UnitNanos(i)  == TotalNanos(WholeUnits(i, 1))

RECURSIVE CountsNanos(_, _)
\* the sum over the units i..10 of count times one whole unit, in nanoseconds
CountsNanos(c, i) ==
    IF i > 10 THEN <<>>
    ELSE NAdd(NMul(c[i], UnitNanos(i)), CountsNanos(c, i + 1))

\* the sum of two durations, without a limit on the seconds
ExactAdd(x, y) ==
    LET n == x.nanos + y.nanos
        c == IF n >= NANOS_PER_SEC THEN 1 ELSE 0
    IN  Duration(NAdd(NAdd(x.secs, y.secs), NFromInt(c)),
                 n - c * NANOS_PER_SEC)

RECURSIVE SumOf(_, _)
\* the sum of the durations of the results rs[i..]
SumOf(rs, i) ==
    IF i > Len(rs) THEN ZeroDuration ELSE ExactAdd(rs[i].d, SumOf(rs, i + 1))

Formatted == op = "format" /\ pc \in {"formatted", "done"}
Parsed    == op \in {"parse", "concat"} /\ pc \in {"parsed", "done"}

(***************************************************************************)
(* Claims                                                                  *)
(***************************************************************************)
\* C1: round trip.  Parsing the text format_duration(d) produced succeeds
\* and returns a Duration equal to d.
RoundTrip ==
    (op = "format" /\ pc = "done") => (result.kind = "Ok" /\ result.d = val)

\* C2: alias resolution.  A whole magnitude n followed, with or without a
\* space, by any tag of the catalog parses to n whole units of the unit the
\* tag is listed under ("5M" is 5 months, "5m" is 5 minutes).
AliasResolution ==
    Parsed =>
        \A n \in 1..MaxMag, sep \in {"", " "}, i \in 1..Len(UnitTags) :
            input = u64_to_string(NFromInt(n)) \o sep \o UnitTags[i][1]
            => /\ result.kind = "Ok"
               /\ result.d = WholeUnits(UnitIndex(UnitTags[i][2]), n)

\* C3: additivity.  Parsing a concatenation of well-formed time-spans
\* succeeds and returns the sum of the durations of the spans parsed one by
\* one, nanoseconds carrying into seconds.
Additivity ==
    (op = "concat" /\ pc = "done") =>
        /\ result.kind = "Ok"
        /\ \A i \in 1..Len(parts) : parts[i].kind = "Ok"
        /\ result.d = SumOf(parts, 1)

\* C4: overflow rejection.  An input with a time-span whose magnitude is
\* above u64::MAX, first or later in the input, fails with the error Nom of
\* kind MapOpt carrying the input from the offending number on.
OverflowRejection ==
    Parsed =>
        \A pre \in {"", "1s "}, lit \in HugeLiterals, suf \in UnitSuffixes :
            input = pre \o lit \o suf
            => result = Result("Nom", ZeroDuration, lit \o suf, "MapOpt")

\* C5: error classification.  EmptyInput exactly when the trimmed input is
\* empty; otherwise Nom exactly when no time-span is recognized at its
\* start; otherwise InputLeftOver exactly when text other than whitespace
\* remains after the maximal run of spans; Ok in every other case.
ErrorClassification ==
    Parsed =>
        LET t == Trim(input)
        IN  IF t = "" THEN result.kind = "EmptyInput"
            ELSE IF ~time_span(t).ok THEN result.kind = "Nom"
            ELSE IF Trim(many1(t).rest) # "" THEN result.kind = "InputLeftOver"
            ELSE result.kind = "Ok"

\* C6: pluralization.  In the output of format_duration every item has the
\* suffix of a unit; a calendar-scale item ends in "s" exactly when its
\* count is greater than 1, and a sub-day item is never pluralized.
Pluralization ==
    Formatted =>
        \A k \in DOMAIN Pieces(out) :
            LET name == ItemName(Pieces(out)[k])
                n    == ItemCount(Pieces(out)[k])
                r    == NameRank(name)
            IN  /\ r \in 1..10
                /\ r \in Calendar =>
                      (name = Singular[r] \o "s" <=> NLt(<<1>>, n))
                /\ r \notin Calendar => name = Singular[r]

\* C6 witness: both a plural calendar item and sub-day items above 1
PluralizationWitness ==
    /\ pc = "formatted"
    /\ out = "2years 2months 2weeks 2days 2h 2m 2s 200ms 2ns"

\* C7: zero case and totality.  The output is "0s" exactly when the
\* duration is zero, and for a non-zero duration it is non-empty and has an
\* item with a count greater than zero.
ZeroCase ==
    Formatted =>
        /\ out = "0s" <=> val = ZeroDuration
        /\ val # ZeroDuration =>
              /\ out # ""
              /\ \E k \in DOMAIN Pieces(out) :
                    NLt(<<>>, ItemCount(Pieces(out)[k]))

\* C7 witness: the zero duration has been formatted
ZeroCaseWitness == pc = "formatted" /\ val = ZeroDuration /\ out = "0s"

\* C8: ordering.  For a non-zero duration the items are in strictly
\* descending unit order, a unit appears at most once, a unit whose count is
\* zero has no item, and the items are joined by exactly one space, with no
\* space at either end.
Ordering ==
    (Formatted /\ val # ZeroDuration) =>
        LET ps == Pieces(out)
        IN  /\ \A k \in DOMAIN ps :
                  /\ DigitRun(ps[k], 1) > 0
                  /\ NameRank(ItemName(ps[k])) \in 1..10
                  /\ ItemCount(ps[k]) = counts[NameRank(ItemName(ps[k]))]
                  /\ ItemCount(ps[k]) # <<>>
            /\ \A j, k \in DOMAIN ps :
                  j < k => NameRank(ItemName(ps[j])) < NameRank(ItemName(ps[k]))

\* C8 witness: nine items, the unit with a zero count (us) left out
OrderingWitness ==
    /\ pc = "formatted"
    /\ Len(Pieces(out)) = 9
    /\ counts[9] = <<>>

\* C9: greedy decomposition.  The ten counts times their units sum to the
\* duration exactly; every remainder is smaller than its unit, so months <=
\* 11, weeks <= 4, days <= 6, hours <= 23, minutes <= 59, seconds <= 59 and
\* millis, micros, nanos <= 999; a duration of whole milliseconds has no us
\* and no ns item.
GreedyDecomposition ==
    (Formatted /\ val # ZeroDuration) =>
        /\ CountsNanos(counts, 1) = TotalNanos(val)
        /\ \A i \in 1..10 : FLt(rems[i], Factor(Units[i]))
        /\ \A i \in 2..10 :
              NLe(counts[i], NFromInt(<<0, 11, 4, 6, 23, 59, 59, 999, 999, 999>>[i]))
        /\ val.nanos % 1000000 = 0 => (counts[9] = <<>> /\ counts[10] = <<>>)

\* C10: totality of parse.  parse_duration_new returns Ok with nanoseconds
\* below 1,000,000,000 or one of the three errors, and never aborts; an
\* input whose seconds, or sum of seconds, are above u64::MAX is not
\* accepted.
ParseTotality ==
    Parsed =>
        /\ result.kind \in {"Ok", "EmptyInput", "InputLeftOver", "Nom"}
        /\ result.kind = "Ok" => result.d.nanos \in 0..(NANOS_PER_SEC - 1)
        /\ input \in OutOfRangeInputs => result.kind # "Ok"

====
